---- MODULE Spec2Model ----
(***************************************************************************)
(* Model of the knowledge-graph generation service                         *)
(* (src/kg_service.py, src/main.py).                                       *)
(*                                                                         *)
(* Every HTTP request is one sequential run of its handler.  Handlers of   *)
(* different requests interleave at the points where a handler touches     *)
(* state that outlives the request: the output directory, the tables, the  *)
(* connection pool, the generator process.  The collaborators (generator   *)
(* process, filesystem, PostgreSQL) are modelled by their contract:        *)
(*   - a commit that succeeds assigns the row its SERIAL id, and the id    *)
(*     stays readable on the inserted object;                              *)
(*   - the UNIQUE constraint on filename is enforced by the store;         *)
(*   - the generator writes its artifact straight to the output path.      *)
(***************************************************************************)
EXTENDS Integers, FiniteSets, Sequences, TLC

(***************************************************************************)
(* Bounds of the model.                                                    *)
(***************************************************************************)
NumReqs == 2

Reqs == 1..NumReqs

Filenames == {"a.html", "b.html"}

(***************************************************************************)
(* Program constants.                                                      *)
(***************************************************************************)
MAX_CONTENT == 10485760

CONTENT_CEILING == 10000000

GENERATE_TIMEOUT == 30

pool_size == 10

max_overflow == 20

\* The bound the module documents ("max 20 connections").
DOC_POOL_MAX == 20

PoolCapacity == pool_size + max_overflow

OutputModes == {"file", "db", "both"}

\* The files a client uploads to /generate: one at the documented size limit
\* and one a byte past it.  (The handler never reads the size, so which name
\* carries which size changes nothing it does.)
Uploads ==
    { [filename |-> "a.html", size |-> MAX_CONTENT],
      [filename |-> "b.html", size |-> MAX_CONTENT + 1] }

\* Lengths of a complete artifact: at the persisted-content ceiling and past it.
ArtifactLens == {CONTENT_CEILING, CONTENT_CEILING + 1}

\* Wall-clock seconds a generator process may take.
Durations == {GENERATE_TIMEOUT, GENERATE_TIMEOUT + 1}

ExitCodes == {0, 1}

STDERR_TEXT == "parse error"

VARIABLES
    pc,             \* [Reqs -> position of the request's handler]
    req,            \* [Reqs -> the parsed request]
    content,        \* [Reqs -> what the handler read from output_path]
    db_record,      \* [Reqs -> db_record.id, 0 for None]
    session,        \* [Reqs -> state of the handler's SessionLocal()]
    rolled_back,    \* [Reqs -> db.rollback() was called]
    invoked,        \* [Reqs -> subprocess.run was called by this request]
    elapsed,        \* [Reqs -> seconds the generator process ran or would have run, 0 before]
    returncode,     \* [Reqs -> exit status subprocess.run saw, -1 for none]
    result,         \* [Reqs -> the HTTP response]
    files,          \* [Filenames -> the file at ./output/<filename>]
    html_content,   \* rows of table html_content (kg_service.py)
    html_contents,  \* rows of table html_contents (main.py)
    next_id,        \* [table -> next value of the SERIAL id sequence]
    dirWritable,    \* os.access("./output", os.W_OK)
    leaked          \* connections held by sessions that were never closed

vars == <<pc, req, content, db_record, session, rolled_back, invoked, elapsed,
          returncode, result, files, html_content, html_contents, next_id, dirWritable, leaked>>

reqVars == <<pc, req, content, db_record, session, rolled_back, invoked, elapsed,
            returncode, result>>


(***************************************************************************)
(* Values.                                                                 *)
(***************************************************************************)
NoReq == [endpoint |-> "none", output_mode |-> "none", filename |-> "none", size |-> 0]

NoFile == [exists |-> FALSE, gen |-> 0, whole |-> FALSE, len |-> 0]

\* The file a running generator has opened for writing but not finished.
PartialFile(r) == [exists |-> TRUE, gen |-> r, whole |-> FALSE, len |-> 0]

\* The artifact a generator that exits 0 leaves at its output path.
WholeFile(r, n) == [exists |-> TRUE, gen |-> r, whole |-> TRUE, len |-> n]

\* html_content posted by the client of store_html.
ClientHtml(r) == [exists |-> TRUE, gen |-> r, whole |-> TRUE, len |-> CONTENT_CEILING]

Response(status, detail, file_path, db_id) ==
    [status |-> status, detail |-> detail, file_path |-> file_path, db_id |-> db_id]

NoResult == Response(0, <<>>, <<>>, 0)

HTTPException(status, detail) == Response(status, detail, <<>>, 0)

\* An exception no handler catches leaves the endpoint: the framework answers
\* 500 with its fixed body, whatever the exception carried.
Unhandled == HTTPException(500, <<"Internal Server Error">>)

(***************************************************************************)
(* os.path                                                                 *)
(***************************************************************************)
output_path(filename) == <<".", "output", filename>>

dirname(path) == SubSeq(path, 1, Len(path) - 1)

basename(path) == path[Len(path)]

abspath(path) == IF path[1] = "." THEN <<"/srv">> \o Tail(path) ELSE path

os_access_W(dir) == IF dir = <<".", "output">> THEN dirWritable ELSE FALSE

path_exists(path) ==
    /\ dirname(path) = <<".", "output">>
    /\ basename(path) \in Filenames
    /\ files[basename(path)].exists

(***************************************************************************)
(* The store: QueuePool(pool_size, max_overflow) and the two tables.       *)
(***************************************************************************)
InTransaction(r) == session[r] = "IntegrityError"

CheckedOut == leaked + Cardinality({r \in Reqs : InTransaction(r)})

PoolHasConnection == CheckedOut < PoolCapacity

\* A column declared without unique=True.
NoConstraint(rows, filename) == FALSE

\* UNIQUE(filename): a row with this filename is already committed.
UniqueViolation(rows, filename) == \E row \in rows : row.filename = filename

Row(id, filename, body, r) == [id |-> id, filename |-> filename, content |-> body, by |-> r]

(***************************************************************************)
(* Initial state: no request arrived, empty output directory and tables.   *)
(* Whether ./output is writable is fixed by the deployment.                *)
(***************************************************************************)
InitService ==
    /\ pc = [r \in Reqs |-> "idle"]
    /\ req = [r \in Reqs |-> NoReq]
    /\ content = [r \in Reqs |-> NoFile]
    /\ db_record = [r \in Reqs |-> 0]
    /\ session = [r \in Reqs |-> "none"]
    /\ rolled_back = [r \in Reqs |-> FALSE]
    /\ invoked = [r \in Reqs |-> FALSE]
    /\ elapsed = [r \in Reqs |-> 0]
    /\ returncode = [r \in Reqs |-> -1]
    /\ result = [r \in Reqs |-> NoResult]
    /\ files = [f \in Filenames |-> NoFile]
    /\ html_content = {}
    /\ html_contents = {}
    /\ next_id = [t \in {"html_content", "html_contents"} |-> 1]
    /\ dirWritable \in BOOLEAN

\* The pool right after create_engine: nothing checked out.
InitPool ==
    /\ InitService
    /\ leaked = 0

\* Connections already checked out when the requests of a run arrive: none,
\* or all (or all but one) held by sessions get_html_content left open, which
\* SpecPool reaches from the idle pool by get_html_content steps alone.
PoolLoads == {0, PoolCapacity - 1, PoolCapacity}

Init ==
    /\ InitService
    /\ leaked \in PoolLoads

(***************************************************************************)
(* POST /generate  (kg_service.py generate_knowledge_graph)                *)
(***************************************************************************)
FileModes == {"file", "both"}

\* A handler whose database block is not guarded by the mode.
EveryMode == OutputModes

DbModes == {"db", "both"}

\* The handler never compares the upload's size with MAX_CONTENT.
InputAccepted(size) == TRUE

\* A handler that lets the process run on.
NeverExpired(duration) == FALSE

TimeoutExpired(duration) == duration > GENERATE_TIMEOUT

\* subprocess.run without check=True.
NoCheck(code) == FALSE

\* check=True: a non-zero exit status raises CalledProcessError.
CalledProcessError(code) == code # 0

\* A handler without the length check.
NeverTooLarge(body) == FALSE

ContentTooLarge(body) == body.len > CONTENT_CEILING

\* A return statement that reports db_id for mode db only.
ReturnValueDbOnly(mode, path, id) ==
    Response(200, <<>>,
             IF mode \in FileModes THEN abspath(path) ELSE <<>>,
             IF mode = "db" THEN id ELSE 0)

\* A return statement that reports file_path whatever the mode.
ReturnValueAlwaysPath(mode, path, id) ==
    Response(200, <<>>, abspath(path), IF mode \in DbModes THEN id ELSE 0)

ReturnValue(mode, path, id) ==
    Response(200, <<>>,
             IF mode \in FileModes THEN abspath(path) ELSE <<>>,
             IF mode \in DbModes THEN id ELSE 0)

\* An error that is recorded while the handler carries on with its next stage.
FailAndContinue(r, response) ==
    /\ pc' = [pc EXCEPT ![r] = "dbwrite"]
    /\ result' = [result EXCEPT ![r] = response]

Fail(r, response) ==
    /\ pc' = [pc EXCEPT ![r] = "failed"]
    /\ result' = [result EXCEPT ![r] = response]

Succeed(r, response) ==
    /\ pc' = [pc EXCEPT ![r] = "done"]
    /\ result' = [result EXCEPT ![r] = response]

\* Lines 148-164: the request arrives; for file and both the directory is
\* checked and the generator process is started.
generate_start(r) ==
    /\ pc[r] = "idle"
    /\ \E m \in OutputModes, input_file \in Uploads :
        /\ InputAccepted(input_file.size)
        /\ req' = [req EXCEPT ![r] = [endpoint |-> "generate", output_mode |-> m,
                                      filename |-> input_file.filename,
                                      size |-> input_file.size]]
        /\ IF m \in FileModes
           THEN IF ~os_access_W(dirname(output_path(input_file.filename)))
                THEN /\ Fail(r, HTTPException(403, <<"Directory not writable">>))
                     /\ UNCHANGED invoked
                ELSE /\ pc' = [pc EXCEPT ![r] = "generate"]
                     /\ invoked' = [invoked EXCEPT ![r] = TRUE]
                     /\ UNCHANGED result
           ELSE /\ pc' = [pc EXCEPT ![r] = "dbwrite"]
                /\ UNCHANGED <<invoked, result>>
    /\ UNCHANGED <<elapsed, returncode, content, db_record, session, rolled_back, files, html_content,
                   html_contents, next_id, dirWritable, leaked>>

\* The running generator process creates its output file and starts writing.
generator_write(r) ==
    /\ pc[r] = "generate"
    /\ files[req[r].filename] # PartialFile(r)
    /\ files' = [files EXCEPT ![req[r].filename] = PartialFile(r)]
    /\ UNCHANGED <<reqVars, html_content, html_contents, next_id, dirWritable, leaked>>

\* Lines 164-166 (and 197-200 for mode file): subprocess.run returns or raises.
generate_subprocess_return(r) ==
    /\ pc[r] = "generate"
    /\ \E code \in ExitCodes, duration \in Durations, n \in ArtifactLens :
        /\ elapsed' = [elapsed EXCEPT ![r] = duration]
        /\ IF TimeoutExpired(duration)
           THEN /\ Fail(r, HTTPException(504, <<"Generation timeout">>))
                /\ UNCHANGED <<files, returncode>>
           ELSE /\ returncode' = [returncode EXCEPT ![r] = code]
                /\ IF CalledProcessError(code)
                   THEN /\ Fail(r, Unhandled)
                        /\ UNCHANGED files
                   ELSE /\ files' = [files EXCEPT ![req[r].filename] = WholeFile(r, n)]
                        /\ IF req[r].output_mode \in DbModes
                           THEN /\ pc' = [pc EXCEPT ![r] = "dbwrite"]
                                /\ UNCHANGED result
                           ELSE Succeed(r, ReturnValue(req[r].output_mode,
                                                       output_path(req[r].filename),
                                                       db_record[r]))
    /\ UNCHANGED <<req, content, db_record, session, rolled_back, invoked,
                   html_content, html_contents, next_id, dirWritable, leaked>>

\* Lines 169-184: read the artifact back, check its length, open the session
\* and add the record.
generate_read_content(r) ==
    /\ pc[r] = "dbwrite"
    /\ IF ~path_exists(output_path(req[r].filename))
       THEN /\ Fail(r, Unhandled)
            /\ UNCHANGED <<content, session>>
       ELSE /\ content' = [content EXCEPT ![r] = files[req[r].filename]]
            /\ IF ContentTooLarge(files[req[r].filename])
               THEN /\ Fail(r, HTTPException(413, <<"Content too large">>))
                    /\ UNCHANGED session
               ELSE /\ session' = [session EXCEPT ![r] = "pending"]
                    /\ pc' = [pc EXCEPT ![r] = "commit"]
                    /\ UNCHANGED result
    /\ UNCHANGED <<elapsed, returncode, req, db_record, rolled_back, invoked, files, html_content,
                   html_contents, next_id, dirWritable, leaked>>

\* Line 185 (and 189-190, 197-200 for mode db): db.commit().
generate_commit(r) ==
    /\ pc[r] = "commit"
    /\ req[r].endpoint = "generate"
    /\ \/ /\ ~PoolHasConnection
          /\ session' = [session EXCEPT ![r] = "TimeoutError"]
          /\ pc' = [pc EXCEPT ![r] = "except"]
          /\ UNCHANGED <<db_record, result, html_content, next_id>>
       \/ /\ PoolHasConnection
          /\ session' = [session EXCEPT ![r] = "OperationalError"]
          /\ pc' = [pc EXCEPT ![r] = "except"]
          /\ UNCHANGED <<db_record, result, html_content, next_id>>
       \/ /\ PoolHasConnection
          /\ UniqueViolation(html_content, basename(output_path(req[r].filename)))
          /\ session' = [session EXCEPT ![r] = "IntegrityError"]
          /\ pc' = [pc EXCEPT ![r] = "except"]
          /\ next_id' = [next_id EXCEPT !["html_content"] = @ + 1]
          /\ UNCHANGED <<db_record, result, html_content>>
       \/ /\ PoolHasConnection
          /\ ~UniqueViolation(html_content, basename(output_path(req[r].filename)))
          /\ html_content' = html_content \cup
                {Row(next_id["html_content"], basename(output_path(req[r].filename)),
                     content[r], r)}
          /\ next_id' = [next_id EXCEPT !["html_content"] = @ + 1]
          /\ db_record' = [db_record EXCEPT ![r] = next_id["html_content"]]
          /\ session' = [session EXCEPT ![r] = "closed"]
          /\ IF req[r].output_mode = "both"
             THEN /\ pc' = [pc EXCEPT ![r] = "verify"]
                  /\ UNCHANGED result
             ELSE Succeed(r, ReturnValue(req[r].output_mode,
                                         output_path(req[r].filename),
                                         next_id["html_content"]))
    /\ UNCHANGED <<elapsed, returncode, req, content, rolled_back, invoked, files, html_contents,
                   dirWritable, leaked>>

\* An except clause that raises without db.rollback().
generate_except_no_rollback(r) ==
    /\ pc[r] = "except"
    /\ req[r].endpoint = "generate"
    /\ session' = [session EXCEPT ![r] = "closed"]
    /\ Fail(r, HTTPException(500, <<session[r]>>))
    /\ UNCHANGED <<elapsed, returncode, req, content, db_record, rolled_back, invoked,
                   files, html_content, html_contents, next_id, dirWritable, leaked>>

\* An except clause that also removes the file the request produced.
generate_except_remove_file(r) ==
    /\ pc[r] = "except"
    /\ req[r].endpoint = "generate"
    /\ rolled_back' = [rolled_back EXCEPT ![r] = TRUE]
    /\ session' = [session EXCEPT ![r] = "closed"]
    /\ files' = [files EXCEPT ![req[r].filename] = NoFile]
    /\ Fail(r, HTTPException(500, <<session[r]>>))
    /\ UNCHANGED <<elapsed, returncode, req, content, db_record, invoked, html_content,
                   html_contents, next_id, dirWritable, leaked>>

\* Lines 186-190: except Exception: rollback, raise 500 with str(e); finally close.
generate_except(r) ==
    /\ pc[r] = "except"
    /\ req[r].endpoint = "generate"
    /\ rolled_back' = [rolled_back EXCEPT ![r] = TRUE]
    /\ session' = [session EXCEPT ![r] = "closed"]
    /\ Fail(r, HTTPException(500, <<session[r]>>))
    /\ UNCHANGED <<elapsed, returncode, req, content, db_record, invoked, files, html_content,
                   html_contents, next_id, dirWritable, leaked>>

\* A check that is content with either sink.
verifyEither(filePresent, dbId) == filePresent \/ dbId # 0

\* Line 194: the dual-write check.
verify(filePresent, dbId) == filePresent /\ dbId # 0

\* Lines 192-200: the check for mode both, and the return value.
generate_verify(r) ==
    /\ pc[r] = "verify"
    /\ IF ~verify(path_exists(output_path(req[r].filename)), db_record[r])
       THEN Fail(r, HTTPException(500, <<"Dual write failed">>))
       ELSE Succeed(r, ReturnValue(req[r].output_mode,
                                   output_path(req[r].filename), db_record[r]))
    /\ UNCHANGED <<elapsed, returncode, req, content, db_record, session, rolled_back, invoked, files,
                   html_content, html_contents, next_id, dirWritable, leaked>>

(***************************************************************************)
(* POST /store-html  (main.py store_html)                                  *)
(***************************************************************************)
\* Lines 91-98: the session is opened and the record added.
store_html_start(r) ==
    /\ pc[r] = "idle"
    /\ \E f \in Filenames :
        req' = [req EXCEPT ![r] = [endpoint |-> "store_html", output_mode |-> "none",
                                   filename |-> f, size |-> 0]]
    /\ content' = [content EXCEPT ![r] = ClientHtml(r)]
    /\ session' = [session EXCEPT ![r] = "pending"]
    /\ pc' = [pc EXCEPT ![r] = "commit"]
    /\ UNCHANGED <<elapsed, returncode, db_record, rolled_back, invoked, result, files, html_content,
                   html_contents, next_id, dirWritable, leaked>>

\* Lines 99-101 (and 105-106): commit, refresh, return the id.
store_html_commit(r) ==
    /\ pc[r] = "commit"
    /\ req[r].endpoint = "store_html"
    /\ \/ /\ ~PoolHasConnection
          /\ session' = [session EXCEPT ![r] = "TimeoutError"]
          /\ pc' = [pc EXCEPT ![r] = "except"]
          /\ UNCHANGED <<db_record, result, html_contents, next_id>>
       \/ /\ PoolHasConnection
          /\ session' = [session EXCEPT ![r] = "OperationalError"]
          /\ pc' = [pc EXCEPT ![r] = "except"]
          /\ UNCHANGED <<db_record, result, html_contents, next_id>>
       \/ /\ PoolHasConnection
          /\ UniqueViolation(html_contents, req[r].filename)
          /\ session' = [session EXCEPT ![r] = "IntegrityError"]
          /\ pc' = [pc EXCEPT ![r] = "except"]
          /\ next_id' = [next_id EXCEPT !["html_contents"] = @ + 1]
          /\ UNCHANGED <<db_record, result, html_contents>>
       \/ /\ PoolHasConnection
          /\ ~UniqueViolation(html_contents, req[r].filename)
          /\ html_contents' = html_contents \cup
                {Row(next_id["html_contents"], req[r].filename, content[r], r)}
          /\ next_id' = [next_id EXCEPT !["html_contents"] = @ + 1]
          /\ db_record' = [db_record EXCEPT ![r] = next_id["html_contents"]]
          /\ session' = [session EXCEPT ![r] = "closed"]
          /\ Succeed(r, Response(200, <<>>, <<>>, next_id["html_contents"]))
    /\ UNCHANGED <<elapsed, returncode, req, content, rolled_back, invoked, files, html_content,
                   dirWritable, leaked>>

\* Lines 102-106: except Exception: rollback, raise 500 with str(e); finally close.
store_html_except(r) ==
    /\ pc[r] = "except"
    /\ req[r].endpoint = "store_html"
    /\ rolled_back' = [rolled_back EXCEPT ![r] = TRUE]
    /\ session' = [session EXCEPT ![r] = "closed"]
    /\ Fail(r, HTTPException(500, <<session[r]>>))
    /\ UNCHANGED <<elapsed, returncode, req, content, db_record, invoked, files, html_content,
                   html_contents, next_id, dirWritable, leaked>>

(***************************************************************************)
(* GET /html-contents/{content_id}  (main.py get_html_content)             *)
(***************************************************************************)
ContentIds == {1, 2}

\* Lines 32-37: the session is opened, the query draws a connection from the
\* pool, and the handler returns (the row or 404) without closing the session.
\* With the pool exhausted the query raises the pool's TimeoutError.
get_html_content(content_id) ==
    /\ IF PoolHasConnection
       THEN leaked' = leaked + 1
       ELSE UNCHANGED leaked
    /\ UNCHANGED <<reqVars, files, html_content, html_contents, next_id, dirWritable>>

(***************************************************************************)
(* POST /generate-graph  (main.py generate_graph)                          *)
(***************************************************************************)
\* Lines 114-134: subprocess.run(..., capture_output, check), no timeout.
generate_graph_start(r) ==
    /\ pc[r] = "idle"
    /\ req' = [req EXCEPT ![r] = [endpoint |-> "generate_graph", output_mode |-> "none",
                                  filename |-> "none", size |-> 0]]
    /\ invoked' = [invoked EXCEPT ![r] = TRUE]
    /\ pc' = [pc EXCEPT ![r] = "graph_running"]
    /\ UNCHANGED <<elapsed, returncode, content, db_record, session, rolled_back, result, files,
                   html_content, html_contents, next_id, dirWritable, leaked>>

\* Lines 136-152: the process exited; a process that never exits never gets here.
generate_graph_return(r) ==
    /\ pc[r] = "graph_running"
    /\ \E code \in ExitCodes :
        /\ returncode' = [returncode EXCEPT ![r] = code]
        /\ IF code # 0
           THEN Fail(r, HTTPException(500, <<"exec failed: ", STDERR_TEXT>>))
           ELSE Succeed(r, Response(200, <<"success">>, <<>>, 0))
    /\ UNCHANGED <<elapsed, req, content, db_record, session, rolled_back, invoked, files,
                   html_content, html_contents, next_id, dirWritable, leaked>>

Next ==
    \/ \E r \in Reqs : generate_start(r)
    \/ \E r \in Reqs : generator_write(r)
    \/ \E r \in Reqs : generate_subprocess_return(r)
    \/ \E r \in Reqs : generate_read_content(r)
    \/ \E r \in Reqs : generate_commit(r)
    \/ \E r \in Reqs : generate_except(r)
    \/ \E r \in Reqs : generate_verify(r)
    \/ \E r \in Reqs : store_html_start(r)
    \/ \E r \in Reqs : store_html_commit(r)
    \/ \E r \in Reqs : store_html_except(r)
    \/ \E r \in Reqs : generate_graph_start(r)
    \/ \E r \in Reqs : generate_graph_return(r)

Spec == Init /\ [][Next]_vars

(***************************************************************************)
(* The dual-write check on all its inputs.  A handler that arrives at line *)
(* 192 has just read the file and holds the id of a committed row, so the  *)
(* cases of the check in which one of the two is missing are drawn: the    *)
(* first request stands at line 192 in mode both, the artifact present or  *)
(* gone from ./output, db_record.id set or not; the other requests run     *)
(* their handlers from the start.                                          *)
(***************************************************************************)
InitVerify ==
    \E input_file \in Uploads, present \in BOOLEAN, id \in {0, 1} :
        /\ pc = [r \in Reqs |-> IF r = 1 THEN "verify" ELSE "idle"]
        /\ req = [r \in Reqs |->
                    IF r = 1
                    THEN [endpoint |-> "generate", output_mode |-> "both",
                          filename |-> input_file.filename, size |-> input_file.size]
                    ELSE NoReq]
        /\ content = [r \in Reqs |-> IF r = 1 THEN WholeFile(1, CONTENT_CEILING) ELSE NoFile]
        /\ db_record = [r \in Reqs |-> IF r = 1 THEN id ELSE 0]
        /\ session = [r \in Reqs |-> IF r = 1 THEN "closed" ELSE "none"]
        /\ rolled_back = [r \in Reqs |-> FALSE]
        /\ invoked = [r \in Reqs |-> r = 1]
        /\ elapsed = [r \in Reqs |-> IF r = 1 THEN GENERATE_TIMEOUT ELSE 0]
        /\ returncode = [r \in Reqs |-> IF r = 1 THEN 0 ELSE -1]
        /\ result = [r \in Reqs |-> NoResult]
        /\ files = [f \in Filenames |->
                      IF f = input_file.filename /\ present
                      THEN WholeFile(1, CONTENT_CEILING) ELSE NoFile]
        /\ html_content =
              IF id # 0
              THEN {Row(id, input_file.filename, WholeFile(1, CONTENT_CEILING), 1)}
              ELSE {}
        /\ html_contents = {}
        /\ next_id = [t \in {"html_content", "html_contents"} |->
                        IF t = "html_content" THEN id + 1 ELSE 1]
        /\ dirWritable \in BOOLEAN
        /\ leaked \in PoolLoads

SpecVerify == InitVerify /\ [][Next]_vars

(***************************************************************************)
(* Progress.  A handler that can take its next step takes it: the worker   *)
(* keeps running, subprocess.run(..., timeout=30) of /generate returns or  *)
(* raises when the 30 seconds are over, and the store answers a commit or  *)
(* the pool gives up the wait for a connection.  Nothing makes a client    *)
(* send a request or a generator write its file, and subprocess.run of     *)
(* /generate-graph (main.py:124-134) has no timeout: nothing makes it      *)
(* return while the process lives.                                         *)
(***************************************************************************)
HandlerProgress ==
    \A r \in Reqs :
        /\ WF_vars(generate_subprocess_return(r))
        /\ WF_vars(generate_read_content(r))
        /\ WF_vars(generate_commit(r))
        /\ WF_vars(generate_except(r))
        /\ WF_vars(generate_verify(r))
        /\ WF_vars(store_html_commit(r))
        /\ WF_vars(store_html_except(r))

SpecFair == Init /\ [][Next]_vars /\ HandlerProgress

\* The same requests with the lookups that leave their session open.
NextPool ==
    \/ Next
    \/ \E id \in ContentIds : get_html_content(id)

SpecPool == InitPool /\ [][NextPool]_vars

(***************************************************************************)
(* Properties of the generation pipeline.                                  *)
(***************************************************************************)
Generate(r) == req[r].endpoint = "generate"

Ended(r) == pc[r] \in {"done", "failed"}

RowsBy(r) == {row \in html_content \cup html_contents : row.by = r}

Contains(detail, text) == \E i \in DOMAIN detail : detail[i] = text

\* C1: a request whose input is larger than MAX_CONTENT is refused with 413
\* before anything else happens: the generator is not invoked for it, no
\* file is read and no session is opened.  (Stated for a writable output
\* directory, so that no other validation error can come first.)
InputTooLargeRejected ==
    \A r \in Reqs :
        (Generate(r) /\ req[r].size > MAX_CONTENT /\ dirWritable) =>
            /\ pc[r] = "failed"
            /\ result[r].status = 413
            /\ ~invoked[r]
            /\ session[r] = "none"
            /\ RowsBy(r) = {}

\* C2: a request that finds the output directory not writable is refused
\* with 403 in validation, whatever its mode: it never invokes the generator
\* and never gets to the generation or the database stage.
NotWritableRejected ==
    \A r \in Reqs :
        (Generate(r) /\ ~dirWritable) =>
            /\ pc[r] = "failed"
            /\ result[r] = HTTPException(403, <<"Directory not writable">>)
            /\ ~invoked[r]

NonZeroExitSurfacesStderr ==
    \A r \in Reqs :
        returncode[r] > 0 =>
            /\ pc[r] = "failed"
            /\ result[r].status = 500
            /\ Contains(result[r].detail, STDERR_TEXT)
            /\ content[r] = NoFile
            /\ session[r] = "none"
            /\ RowsBy(r) = {}

\* C5: a mode-file run draws no connection and inserts no row at any point,
\* and when it ends successfully it returns a file_path and a null db_id.
FileModeSuccess ==
    \A r \in Reqs :
        (Generate(r) /\ req[r].output_mode = "file") =>
            /\ session[r] = "none"
            /\ content[r] = NoFile
            /\ RowsBy(r) = {}
            /\ pc[r] = "done" =>
                /\ result[r].status = 200
                /\ result[r].file_path = abspath(output_path(req[r].filename))
                /\ result[r].file_path # <<>>
                /\ result[r].db_id = 0

\* C5 witness: a mode-file run ended successfully while the table holds rows.
FileModeDone ==
    \E r \in Reqs :
        /\ Generate(r)
        /\ req[r].output_mode = "file"
        /\ pc[r] = "done"
        /\ html_content # {}

\* C6: a mode-both run that ends successfully returns both fields, the file
\* is at file_path and the row with db_id is in the table.
BothModeSuccess ==
    \A r \in Reqs :
        (Generate(r) /\ req[r].output_mode = "both" /\ pc[r] = "done") =>
            /\ result[r].status = 200
            /\ result[r].file_path = abspath(output_path(req[r].filename))
            /\ result[r].file_path # <<>>
            /\ result[r].db_id # 0
            /\ path_exists(output_path(req[r].filename))
            /\ \E row \in html_content :
                /\ row.id = result[r].db_id
                /\ row.filename = req[r].filename

\* C6 witness: a mode-both run ended successfully.
BothModeDone ==
    \E r \in Reqs :
        /\ Generate(r)
        /\ req[r].output_mode = "both"
        /\ pc[r] = "done"

\* C7: a mode-db run that ends successfully returns a db_id that is the id
\* of the row this run inserted, and a null file_path.
DbModeSuccess ==
    \A r \in Reqs :
        (Generate(r) /\ req[r].output_mode = "db" /\ pc[r] = "done") =>
            /\ result[r].status = 200
            /\ result[r].file_path = <<>>
            /\ result[r].db_id # 0
            /\ \E row \in html_content :
                /\ row.id = result[r].db_id
                /\ row.by = r

\* C7 witness: a mode-db run ended successfully.
DbModeDone ==
    \E r \in Reqs :
        /\ Generate(r)
        /\ req[r].output_mode = "db"
        /\ pc[r] = "done"

\* The request has tried to read the artifact back (line 171).
ReadAttempted(r) ==
    /\ Generate(r)
    /\ req[r].output_mode \in DbModes
    /\ \/ pc[r] \in {"commit", "except", "verify", "done"}
       \/ pc[r] = "failed" /\ (req[r].output_mode = "db" \/ returncode[r] = 0)

\* C8: whenever the database is requested, the request has invoked the
\* generator before it reads the content, and what it reads is the complete
\* artifact of its own invocation: not another request's file, not a file
\* that is missing.
DbContentIsOwnArtifact ==
    \A r \in Reqs :
        ReadAttempted(r) =>
            /\ invoked[r]
            /\ content[r].exists
            /\ content[r].whole
            /\ content[r].gen = r

Table(r) == IF req[r].endpoint = "store_html" THEN html_contents ELSE html_content

DbErrors == {"IntegrityError", "OperationalError", "TimeoutError"}

DatabaseWriteError(r) ==
    /\ pc[r] = "failed"
    /\ result[r].status = 500
    /\ \E e \in DbErrors : result[r].detail = <<e>>

\* C9: no table ever holds two rows with one filename; a request whose
\* insert met a committed row of the same filename ends in DatabaseWriteError
\* (500), and a request that got past its commit has its own row in the
\* table: no insert is dropped silently.
FilenameUnique ==
    /\ \A t \in {html_content, html_contents} :
        \A a \in t, b \in t : (a.filename = b.filename \/ a.id = b.id) => a = b
    /\ \A r \in Reqs :
        /\ (session[r] = "IntegrityError" \/ result[r].detail = <<"IntegrityError">>) =>
            /\ \E row \in Table(r) : row.filename = req[r].filename /\ row.by # r
            /\ RowsBy(r) = {}
            /\ Ended(r) => DatabaseWriteError(r)
        /\ (session[r] = "closed" /\ pc[r] \in {"verify", "done"}) =>
            \E row \in Table(r) : row.filename = req[r].filename /\ row.by = r

\* C9 witness: two requests for one filename, one inserted its row, the
\* other ended in DatabaseWriteError.
CompetingInsertRefused ==
    \E r \in Reqs, q \in Reqs :
        /\ r # q
        /\ Generate(r) /\ Generate(q)
        /\ req[r].filename = req[q].filename
        /\ pc[q] = "done"
        /\ \E row \in html_content : row.by = q
        /\ DatabaseWriteError(r)
        /\ result[r].detail = <<"IntegrityError">>

ContentTooLargeRejected ==
    \A r \in Reqs :
        /\ (Generate(r) /\ content[r].exists /\ content[r].len > CONTENT_CEILING) =>
            /\ pc[r] = "failed"
            /\ result[r] = HTTPException(413, <<"Content too large">>)
            /\ session[r] = "none"
            /\ db_record[r] = 0
            /\ RowsBy(r) = {}
        /\ (Generate(r) /\ result[r].status = 413) =>
            /\ req[r].output_mode \in DbModes
            /\ content[r].len > CONTENT_CEILING

\* C11 witness: a mode-both request read an artifact of 10,000,001 and was
\* refused, while the table holds a row of another request.
ContentTooLargeRefused ==
    \E r \in Reqs :
        /\ Generate(r)
        /\ req[r].output_mode = "both"
        /\ content[r].len = CONTENT_CEILING + 1
        /\ result[r].status = 413
        /\ html_content # {}

\* C12: the pool is bounded to 20 connections: at no time are more than 20
\* connections checked out.
PoolBoundedAtTwenty == CheckedOut <= DOC_POOL_MAX

\* The request has begun its database stage: it has read the artifact back,
\* opened a session or inserted a row.
InDbStage(r) ==
    \/ pc[r] \in {"dbwrite", "commit", "except", "verify"}
    \/ content[r] # NoFile
    \/ session[r] # "none"
    \/ RowsBy(r) # {}

Failed(r) == result[r].status >= 400

\* C14: a failure is terminal for its request: a request that has been
\* answered with an error is at its end, and from then on it runs no stage
\* (no generator invocation, no read, no session, no insert, no verification)
\* and its answer never changes into a success.
FailureIsTerminal ==
    [][\A r \in Reqs :
        Failed(r) =>
            /\ pc[r] = "failed"
            /\ pc'[r] = pc[r]
            /\ result'[r] = result[r]
            /\ invoked'[r] = invoked[r]
            /\ elapsed'[r] = elapsed[r]
            /\ returncode'[r] = returncode[r]
            /\ content'[r] = content[r]
            /\ session'[r] = session[r]
            /\ db_record'[r] = db_record[r]
            /\ {row \in html_content' \cup html_contents' : row.by = r} = RowsBy(r)]_vars

\* C14 witness: requests have failed in the database stage and in the
\* generation stage.
FailedInStages ==
    \E r \in Reqs, q \in Reqs :
        /\ Generate(r) /\ Generate(q)
        /\ DatabaseWriteError(r)
        /\ pc[q] = "failed"
        /\ result[q].status = 504

\* C15: the dual-write check is run for mode both only; it answers success
\* exactly when the file is at the output path and db_record has an id, and
\* 500 "Dual write failed" in each of the three other cases; it changes
\* neither the output directory nor the tables.
VerifyOutcome ==
    [][\A r \in Reqs :
        /\ pc'[r] = "verify" => req'[r].output_mode = "both"
        /\ (result'[r] # result[r] /\ result'[r].detail = <<"Dual write failed">>)
              => pc[r] = "verify"
        /\ (pc[r] = "verify" /\ pc'[r] # "verify") =>
            /\ req[r].output_mode = "both"
            /\ IF path_exists(output_path(req[r].filename)) /\ db_record[r] # 0
               THEN /\ pc'[r] = "done"
                    /\ result'[r] = Response(200, <<>>,
                                             abspath(output_path(req[r].filename)),
                                             db_record[r])
               ELSE /\ pc'[r] = "failed"
                    /\ result'[r] = HTTPException(500, <<"Dual write failed">>)
            /\ UNCHANGED <<files, html_content, html_contents, next_id, leaked>>]_vars

\* C15 witness: the check failed a request whose row is committed and whose
\* file is not at the output path.
DualWriteFailed ==
    \E r \in Reqs :
        /\ req[r].output_mode = "both"
        /\ result[r] = HTTPException(500, <<"Dual write failed">>)
        /\ db_record[r] # 0
        /\ ~path_exists(output_path(req[r].filename))


\* C16: a request of mode both that fails undoes nothing: the step in which
\* it fails leaves every file of the output directory and every committed
\* row as they were, and no step removes a file or a row.
NoCompensation ==
    [][/\ \A r \in Reqs :
            (req'[r].output_mode = "both" /\ pc[r] # "failed" /\ pc'[r] = "failed")
                => /\ files' = files
                   /\ html_content' = html_content
                   /\ html_contents' = html_contents
       /\ \A f \in Filenames : files[f].exists => files'[f].exists
       /\ html_content \subseteq html_content'
       /\ html_contents \subseteq html_contents']_vars

\* C16 witness: one request failed the dual-write check and its committed
\* row is in the table, another failed on a database error and the file its
\* generator wrote is at its path.
FailedWithSinkKept ==
    \E r1, r2 \in Reqs :
        /\ req[r1].output_mode = "both"
        /\ result[r1] = HTTPException(500, <<"Dual write failed">>)
        /\ \E row \in html_content : row.id = db_record[r1] /\ row.by = r1
        /\ req[r2].output_mode = "both"
        /\ pc[r2] = "failed"
        /\ DatabaseWriteError(r2)
        /\ files[req[r2].filename].exists
        /\ files[req[r2].filename].gen = r2


\* C17: a request of mode both reads, and so inserts, only the artifact its
\* own generator invocation wrote: what one request holds as content was
\* never written by the generator of another request.
ReadsOwnArtifact ==
    \A r \in Reqs :
        (Generate(r) /\ req[r].output_mode = "both" /\ content[r] # NoFile)
            => content[r].gen = r


\* C18: every request that has arrived is eventually answered, with a
\* success or with an error, whatever the generator process and the pool do.
RequestEnds ==
    \A r \in Reqs : (pc[r] # "idle") ~> Ended(r)


\* C19: every session an operation opens is closed before the operation
\* ends: whenever no request is in flight, no connection is checked out.
NoConnectionHeldAtRest ==
    (\A r \in Reqs : pc[r] \in {"idle", "done", "failed"}) => CheckedOut = 0

====
